---- MODULE Spec2Model ----
(***************************************************************************)
(* Model of src/app.py, a Streamlit dashboard script.  Every interaction   *)
(* (upload, widget change) re-executes the script top to bottom: the CSV   *)
(* is normalised by load_data, the sidebar widgets give the filter         *)
(* selections, the filtered frame is computed and the metrics and charts   *)
(* are rendered in the order of the script.  An uncaught exception or      *)
(* st.stop() ends the run at that line.                                    *)
(*                                                                         *)
(* Text is modelled as a sequence of one-character strings so that         *)
(* str.title() and the ordering of group keys are computed, not assumed.   *)
(* Inputs are within the data model of the CSV: text State/Type/Gender/    *)
(* Age_group, integer Year, non-negative integer Total (no missing cells). *)
(***************************************************************************)
EXTENDS Integers, Sequences, FiniteSets, TLC

\* ------------------------------------------------------------------------
\* Bounds of the model
\* ------------------------------------------------------------------------
MaxRows == 2        \* rows of an uploaded CSV in the pipeline specification
MaxFileRows == 2    \* rows of an uploaded CSV in the session specification

\* ------------------------------------------------------------------------
\* Text: characters, case conversion, str.title(), ordering
\* ------------------------------------------------------------------------
LowerCase == <<"a","b","c","d","e","f","g","h","i","j","k","l","m",
               "n","o","p","q","r","s","t","u","v","w","x","y","z">>
UpperCase == <<"A","B","C","D","E","F","G","H","I","J","K","L","M",
               "N","O","P","Q","R","S","T","U","V","W","X","Y","Z">>
\* the characters used, in code-point order (the order of Python's str <)
CodePoints == <<" ","&","(",")","-","0","1","2","3","4","5","6","7","8","9">>
              \o UpperCase \o LowerCase

Range(s) == {s[i] : i \in DOMAIN s}

IndexOf(seq, c) == CHOOSE i \in DOMAIN seq : seq[i] = c

LowerLetters == Range(LowerCase)
UpperLetters == Range(UpperCase)
Characters == Range(CodePoints)

islower(c) == c \in LowerLetters
isupper(c) == c \in UpperLetters
iscased(c) == islower(c) \/ isupper(c)
isspace(c) == c = " "

\* str.upper() and str.lower() of one character, and its code-point rank
UpperOf == [c \in Characters |->
              IF islower(c) THEN UpperCase[IndexOf(LowerCase, c)] ELSE c]
LowerOf == [c \in Characters |->
              IF isupper(c) THEN LowerCase[IndexOf(UpperCase, c)] ELSE c]
OrdOf == [c \in Characters |-> IndexOf(CodePoints, c)]

upper(c) == UpperOf[c]
lower(c) == LowerOf[c]
ord(c) == OrdOf[c]

\* str.title(): a cased character that follows a cased character is
\* lower-cased, any other cased character is upper-cased; nothing is removed.
RECURSIVE title_from(_, _)
title_from(s, previous_is_cased) ==
    IF s = <<>> THEN <<>>
    ELSE <<IF previous_is_cased THEN lower(Head(s)) ELSE upper(Head(s))>>
         \o title_from(Tail(s), iscased(Head(s)))

\* str.capitalize() in place of str.title(): only the first character is
\* upper-cased
title_capitalize(s) ==
    IF s = <<>> THEN <<>>
    ELSE <<upper(Head(s))>> \o [i \in 1..(Len(s) - 1) |-> lower(s[i + 1])]

title(s) == title_from(s, FALSE)

\* str < str : lexicographic by code point
RECURSIVE str_lt(_, _)
str_lt(a, b) ==
    IF b = <<>> THEN FALSE
    ELSE IF a = <<>> THEN TRUE
    ELSE IF Head(a) = Head(b) THEN str_lt(Tail(a), Tail(b))
    ELSE ord(Head(a)) < ord(Head(b))

\* ------------------------------------------------------------------------
\* load_data
\* ------------------------------------------------------------------------
states_to_remove ==
    { <<"T","o","t","a","l"," ","(","A","l","l"," ","I","n","d","i","a",")">>,
      <<"T","o","t","a","l"," ","(","S","t","a","t","e","s",")">>,
      <<"T","o","t","a","l"," ","(","U","t","s",")">> }

\* the reserved labels compared with State as read, before it is title-cased
load_data_compare_first(csv) ==
    LET kept == SelectSeq(csv, LAMBDA r : r.State \notin states_to_remove)
    IN [i \in DOMAIN kept |->
          [kept[i] EXCEPT !.State = title(@), !.Type = title(@),
                          !.Gender = title(@)]]

load_data(csv) ==
    LET titled == [i \in DOMAIN csv |->
                     [csv[i] EXCEPT !.State = title(@),
                                    !.Type = title(@),
                                    !.Gender = title(@)]]
    IN SelectSeq(titled, LAMBDA r : r.State \notin states_to_remove)

\* ------------------------------------------------------------------------
\* Data-frame operations used by the script
\* ------------------------------------------------------------------------
column(frame, name) == [i \in DOMAIN frame |-> frame[i][name]]

\* Series.unique(): distinct values in order of first appearance
RECURSIVE unique(_)
unique(values) ==
    IF values = <<>> THEN <<>>
    ELSE LET front == SubSeq(values, 1, Len(values) - 1)
             last == values[Len(values)]
         IN IF last \in Range(front) THEN unique(front)
            ELSE Append(unique(front), last)

\* Series.isin(values) and Series.between(left, right), both bounds inclusive
isin(v, values) == v \in values
\* between(..., inclusive="left")
between_left(v, left, right) == left <= v /\ v < right
between(v, left, right) == left <= v /\ v <= right

RECURSIVE sum_total(_)
sum_total(frame) ==
    IF frame = <<>> THEN 0 ELSE Head(frame).Total + sum_total(Tail(frame))

int_min(S) == CHOOSE x \in S : \A y \in S : x <= y
int_max(S) == CHOOSE x \in S : \A y \in S : y <= x

\* order of group keys: integers for Year, code-point order for text
key_lt(key, a, b) == IF key = "Year" THEN a < b ELSE str_lt(a, b)

\* groupby sorts the group keys ascending (sort=True is the default)
RECURSIVE sorted_keys(_, _)
sorted_keys(key, S) ==
    IF S = {} THEN <<>>
    ELSE LET first == CHOOSE x \in S : \A y \in S \ {x} : key_lt(key, x, y)
         IN <<first>> \o sorted_keys(key, S \ {first})

group(frame, key, k) == SelectSeq(frame, LAMBDA r : r[key] = k)

\* .first() in place of .sum()
groupby_first(frame, key) ==
    LET keys == sorted_keys(key, Range(column(frame, key)))
    IN [i \in DOMAIN keys |->
          [f \in {key, "Total"} |->
             IF f = key THEN keys[i] ELSE Head(group(frame, key, keys[i])).Total]]

\* frame.groupby(key)['Total'].sum().reset_index()
groupby_sum(frame, key) ==
    LET keys == sorted_keys(key, Range(column(frame, key)))
    IN [i \in DOMAIN keys |->
          [f \in {key, "Total"} |->
             IF f = key THEN keys[i] ELSE sum_total(group(frame, key, keys[i]))]]

\* frame.groupby(['Year', by])['Total'].sum().reset_index():
\* one row per (Year, by) pair present, ordered by Year, then by the second key
RECURSIVE concat(_)
concat(seqs) == IF seqs = <<>> THEN <<>> ELSE Head(seqs) \o concat(Tail(seqs))

groupby2_sum(frame, by) ==
    LET years == sorted_keys("Year", Range(column(frame, "Year")))
        block(y) ==
            LET inner == groupby_sum(group(frame, "Year", y), by)
            IN [j \in DOMAIN inner |->
                  [f \in {"Year", by, "Total"} |->
                     IF f = "Year" THEN y ELSE inner[j][f]]]
    IN concat([i \in DOMAIN years |-> block(years[i])])

\* Floating-point results are kept exact, as a fraction, or are NaN
NaN == [isnan |-> TRUE, num |-> 0, den |-> 1]
Float(n, d) == [isnan |-> FALSE, num |-> n, den |-> d]

float_add(a, b) ==
    IF a.isnan \/ b.isnan THEN NaN
    ELSE Float(a.num * b.den + b.num * a.den, a.den * b.den)

\* true division; numpy gives nan for 0/0 (no exception is raised)
float_div(a, n) ==
    IF a.isnan \/ n = 0 THEN NaN ELSE Float(a.num, a.den * n)

RECURSIVE float_sum(_)
float_sum(values) ==
    IF values = <<>> THEN Float(0, 1)
    ELSE float_add(Head(values), float_sum(Tail(values)))

\* Series.mean(): NaN for an empty series
series_mean(values) ==
    IF values = <<>> THEN NaN ELSE float_div(float_sum(values), Len(values))

\* frame.groupby(key)['Total'].mean(), the values in key order
groupby_mean(frame, key) ==
    LET keys == sorted_keys(key, Range(column(frame, key)))
    IN [i \in DOMAIN keys |->
          LET g == group(frame, key, keys[i])
          IN float_div(Float(sum_total(g), 1), Len(g))]

\* format with a fixed number of decimals: round half to even; the result
\* is the displayed number in units of 1/scale ("nan" stays NaN)
format_fixed(x, scale) ==
    IF x.isnan THEN NaN
    ELSE LET n == x.num * scale
             q == n \div x.den
             r == n % x.den
         IN Float(IF 2 * r < x.den THEN q
                  ELSE IF 2 * r > x.den THEN q + 1
                  ELSE IF q % 2 = 0 THEN q ELSE q + 1, scale)

\* the last occurrence of the maximum
idxmax_last(series, key) ==
    LET m == int_max(Range(column(series, "Total")))
        i == int_max({j \in DOMAIN series : series[j].Total = m})
    IN series[i][key]

\* Series.idxmax(): label of the first occurrence of the maximum
\* (raises ValueError on an empty series; callers test for that)
idxmax(series, key) ==
    LET m == int_max(Range(column(series, "Total")))
        i == int_min({j \in DOMAIN series : series[j].Total = m})
    IN series[i][key]

\* ------------------------------------------------------------------------
\* The script: widgets, filters, metrics, charts
\* ------------------------------------------------------------------------
Themes == <<"plotly", "plotly_white", "plotly_dark", "ggplot2", "seaborn">>
Categories == <<"Type", "Gender", "Age_group">>
AnalysisTypes == <<"Age Group Trends", "Gender Comparison", "Type Distribution">>
ColorScales == <<"Viridis", "Plasma", "Inferno", "Magma", "Cividis">>

Male == <<"M","a","l","e">>

state_name_mapping ==
    (<<"O","d","i","s","h","a">> :> <<"O","r","i","s","s","a">>)
 @@ (<<"J","a","m","m","u"," ","&"," ","K","a","s","h","m","i","r">>
       :> <<"J","a","m","m","u"," ","a","n","d"," ","K","a","s","h","m","i","r">>)
 @@ (<<"A"," ","&"," ","N"," ","I","s","l","a","n","d","s">>
       :> <<"A","n","d","a","m","a","n"," ","a","n","d"," ","N","i","c","o","b","a","r">>)
 @@ (<<"D"," ","&"," ","N"," ","H","a","v","e","l","i">>
       :> <<"D","a","d","r","a"," ","a","n","d"," ","N","a","g","a","r"," ","H","a","v","e","l","i">>)
 @@ (<<"D","a","m","a","n"," ","&"," ","D","i","u">>
       :> <<"D","a","m","a","n"," ","a","n","d"," ","D","i","u">>)
 @@ (<<"D","e","l","h","i"," ","(","U","t",")">> :> <<"D","e","l","h","i">>)
 @@ (<<"U","t","t","a","r","a","k","h","a","n","d">>
       :> <<"U","t","t","a","r","a","n","c","h","a","l">>)

\* Series.map(dict): a value that is not a key becomes missing
map_values(v, mapping) == IF v \in DOMAIN mapping THEN mapping[v] ELSE <<>>

\* Series.replace(dict): a value that is a key becomes the mapped value,
\* any other value is kept
replace(v, mapping) == IF v \in DOMAIN mapping THEN mapping[v] ELSE v

\* frame.where(mask): the excluded rows stay in the frame, blanked
where_filters(frame, states, years, types, genders, age_groups) ==
    [i \in DOMAIN frame |->
       IF /\ isin(frame[i].State, states)
          /\ between(frame[i].Year, years[1], years[2])
          /\ isin(frame[i].Type, types)
          /\ isin(frame[i].Gender, genders)
          /\ isin(frame[i].Age_group, age_groups)
       THEN frame[i]
       ELSE [State |-> <<>>, Type |-> <<>>, Gender |-> <<>>,
             Age_group |-> <<>>, Year |-> 0, Total |-> 0]]

\* lines 114-120: the boolean mask of the five conditions
apply_filters(frame, states, years, types, genders, age_groups) ==
    SelectSeq(frame, LAMBDA r :
        /\ isin(r.State, states)
        /\ between(r.Year, years[1], years[2])
        /\ isin(r.Type, types)
        /\ isin(r.Gender, genders)
        /\ isin(r.Age_group, age_groups))

\* line 153
avg_annual_cases(frame) ==
    format_fixed(series_mean(groupby_mean(frame, "Year")), 1)

\* line 155 (the frame is not empty)
most_affected_state(frame) == idxmax(groupby_sum(frame, "State"), "State")

\* line 157
gender_ratio(frame) ==
    LET male == sum_total(SelectSeq(frame, LAMBDA r : r.Gender = Male))
        ratio == float_div(Float(male, 1), sum_total(frame))
    IN format_fixed(IF ratio.isnan THEN NaN
                    ELSE Float(ratio.num * 100, ratio.den), 10)

\* line 192: sort_values('Total', ascending=False); rows with equal Total
\* keep no guaranteed relative order (quicksort), the model keeps key order
RECURSIVE sort_total_desc(_)
sort_total_desc(frame) ==
    IF frame = <<>> THEN <<>>
    ELSE LET m == int_max(Range(column(frame, "Total")))
             i == int_min({j \in DOMAIN frame : frame[j].Total = m})
         IN <<frame[i]>>
            \o sort_total_desc(SubSeq(frame, 1, i - 1)
                               \o SubSeq(frame, i + 1, Len(frame)))

\* lines 231-242
map_frame(frame) ==
    LET agg == groupby_sum(frame, "State")
    IN [i \in DOMAIN agg |->
          [agg[i] EXCEPT !.State = replace(@, state_name_mapping)]]

\* lines 205-217
advanced_data(frame, analysis) ==
    IF analysis = "Age Group Trends" THEN groupby2_sum(frame, "Age_group")
    ELSE IF analysis = "Gender Comparison" THEN groupby2_sum(frame, "Gender")
    ELSE groupby2_sum(frame, "Type")

MetricLabels == <<"Total Cases", "Avg Annual Cases",
                  "Most Affected State", "Gender Ratio">>
ViewOrder == <<"csv_link", "Annual Trend", "Distribution",
               "State Distribution", "Advanced Analysis", "Heatmap">>
FilterWidgets == {"states", "years", "type", "gender", "age_group"}
ChartWidgets == {"category", "analysis_type", "color_scale"}

\* widget values before any widget was rendered
NoWidgets ==
    [theme |-> Themes[1], states |-> {}, years |-> <<0, 0>>, type |-> {},
     gender |-> {}, age_group |-> {}, category |-> Categories[1],
     analysis_type |-> AnalysisTypes[1], color_scale |-> ColorScales[1]]
NoOptions ==
    [states |-> <<>>, years |-> <<0, 0>>, type |-> <<>>, gender |-> <<>>,
     age_group |-> <<>>]
NoMetrics == [l \in {} |-> 0]

\* whether rendering the element raises on the filtered frame: only
\* Series.idxmax() of line 155 does, on an empty frame (sums of an empty
\* frame are 0, means and 0/0 are nan, group-bys are empty frames)
raises(element, frame) == element = "Most Affected State" /\ frame = <<>>

\* One execution of the script.  file: <<>> (nothing uploaded) or <<csv>>;
\* w: the widget values of the session; opts: the options each filter widget
\* was last created with.  A widget created with the same options keeps its
\* value, one created with other options takes its default.  The result
\* gives every name the script binds, the elements rendered and the line
\* the run ended at.
script(file, w, opts) ==
    LET stopped ==
            [uploaded_file |-> file, df |-> <<>>, w |-> w, options |-> opts,
             widgets |-> {"uploader"}, filtered_df |-> <<>>,
             metrics |-> NoMetrics, yearly_data |-> <<>>,
             category_data |-> <<>>, state_data |-> <<>>, data |-> <<>>,
             map_data |-> <<>>, views |-> {}, halt |-> "stop"]
    IN IF file = <<>> THEN stopped
       ELSE
       LET d == load_data(file[1])
           state_options == unique(column(d, "State"))
           states == IF opts.states = state_options THEN w.states
                     ELSE Range(state_options)
       IN IF d = <<>>
          THEN \* line 90: int(nan) raises ValueError
               [stopped EXCEPT !.df = d, !.w.states = states,
                               !.options.states = state_options,
                               !.widgets = {"uploader", "theme", "states"},
                               !.halt = "slider"]
          ELSE
          LET year_options == <<int_min(Range(column(d, "Year"))),
                                int_max(Range(column(d, "Year")))>>
              years == IF opts.years = year_options THEN w.years
                       ELSE year_options
              type_options == unique(column(d, "Type"))
              types == IF opts.type = type_options THEN w.type
                       ELSE Range(type_options)
              gender_options == unique(column(d, "Gender"))
              genders == IF opts.gender = gender_options THEN w.gender
                         ELSE Range(gender_options)
              age_options == unique(column(d, "Age_group"))
              ages == IF opts.age_group = age_options THEN w.age_group
                      ELSE Range(age_options)
              f == apply_filters(d, states, years, types, genders, ages)
              sidebar ==
                  [stopped EXCEPT
                     !.df = d,
                     !.w = [w EXCEPT !.states = states, !.years = years,
                                     !.type = types, !.gender = genders,
                                     !.age_group = ages],
                     !.options = [states |-> state_options,
                                  years |-> year_options,
                                  type |-> type_options,
                                  gender |-> gender_options,
                                  age_group |-> age_options],
                     !.widgets = {"uploader", "theme"} \cup FilterWidgets,
                     !.filtered_df = f,
                     !.views = {"csv_link"}]
              total == sum_total(f)
              avg == avg_annual_cases(f)
          IN IF raises("Most Affected State", f)
             THEN \* line 155: idxmax of an empty series raises ValueError
                  [sidebar EXCEPT
                     !.metrics = [l \in {"Total Cases", "Avg Annual Cases"} |->
                                    IF l = "Total Cases" THEN total ELSE avg],
                     !.halt = "idxmax"]
             ELSE [sidebar EXCEPT
                     !.metrics = [l \in Range(MetricLabels) |->
                        IF l = "Total Cases" THEN total
                        ELSE IF l = "Avg Annual Cases" THEN avg
                        ELSE IF l = "Most Affected State"
                             THEN most_affected_state(f)
                        ELSE gender_ratio(f)],
                     !.widgets = @ \cup ChartWidgets,
                     !.yearly_data = groupby_sum(f, "Year"),
                     !.category_data = groupby_sum(f, w.category),
                     !.state_data = sort_total_desc(groupby_sum(f, "State")),
                     !.data = advanced_data(f, w.analysis_type),
                     !.map_data = map_frame(f),
                     !.views = Range(ViewOrder),
                     !.halt = "none"]

\* ------------------------------------------------------------------------
\* State
\* ------------------------------------------------------------------------
VARIABLES
    uploaded_file,      \* <<>> or <<csv>>: the file in the uploader
    df,                 \* line 72
    theme, selected_states, selected_years, selected_type, selected_gender,
    selected_age_group, category, analysis_type, color_scale,
    options,            \* options the filter widgets were created with
    widgets,            \* widgets on the page after the last run
    filtered_df,        \* line 114
    metrics,            \* label -> value of the st.metric elements rendered
    yearly_data, category_data, state_data, data, map_data,
    views,              \* download link and charts rendered by the last run
    halt                \* where the last run ended: none, stop, slider, idxmax

vars == <<uploaded_file, df, theme, selected_states, selected_years,
          selected_type, selected_gender, selected_age_group, category,
          analysis_type, color_scale, options, widgets, filtered_df, metrics,
          yearly_data, category_data, state_data, data, map_data, views, halt>>

session_state ==
    [theme |-> theme, states |-> selected_states, years |-> selected_years,
     type |-> selected_type, gender |-> selected_gender,
     age_group |-> selected_age_group, category |-> category,
     analysis_type |-> analysis_type, color_scale |-> color_scale]

\* the state after the first run of the script, with result r
FirstRun(r) ==
    /\ uploaded_file = r.uploaded_file
    /\ df = r.df
    /\ theme = r.w.theme
    /\ selected_states = r.w.states
    /\ selected_years = r.w.years
    /\ selected_type = r.w.type
    /\ selected_gender = r.w.gender
    /\ selected_age_group = r.w.age_group
    /\ category = r.w.category
    /\ analysis_type = r.w.analysis_type
    /\ color_scale = r.w.color_scale
    /\ options = r.options
    /\ widgets = r.widgets
    /\ filtered_df = r.filtered_df
    /\ metrics = r.metrics
    /\ yearly_data = r.yearly_data
    /\ category_data = r.category_data
    /\ state_data = r.state_data
    /\ data = r.data
    /\ map_data = r.map_data
    /\ views = r.views
    /\ halt = r.halt

\* a re-execution of the script: every name is bound again
Rerun(file, w) ==
    \E r \in {script(file, w, options)} :
       /\ uploaded_file' = r.uploaded_file
       /\ df' = r.df
       /\ theme' = r.w.theme
       /\ selected_states' = r.w.states
       /\ selected_years' = r.w.years
       /\ selected_type' = r.w.type
       /\ selected_gender' = r.w.gender
       /\ selected_age_group' = r.w.age_group
       /\ category' = r.w.category
       /\ analysis_type' = r.w.analysis_type
       /\ color_scale' = r.w.color_scale
       /\ options' = r.options
       /\ widgets' = r.widgets
       /\ filtered_df' = r.filtered_df
       /\ metrics' = r.metrics
       /\ yearly_data' = r.yearly_data
       /\ category_data' = r.category_data
       /\ state_data' = r.state_data
       /\ data' = r.data
       /\ map_data' = r.map_data
       /\ views' = r.views
       /\ halt' = r.halt

\* ------------------------------------------------------------------------
\* Inputs
\* ------------------------------------------------------------------------
Row(state, type, gender, age_group, year, total) ==
    [State |-> state, Type |-> type, Gender |-> gender,
     Age_group |-> age_group, Year |-> year, Total |-> total]

RowPool ==
    { Row(<<"g","o","a">>, <<"c","a","u","s","e","s">>, <<"m","a","l","e">>,
          <<"1","5","-","2","9">>, 2019, 10),
      Row(<<"G","o","a">>, <<"C","a","u","s","e","s">>, <<" ","m","a","l","e">>,
          <<"1","5","-","2","9">>, 2019, 20),
      Row(<<"O","D","I","S","H","A">>, <<"m","e","a","n","s">>,
          <<"F","E","M","A","L","E">>, <<"0","-","1","4">>, 2020, 20),
      Row(<<"t","o","t","a","l"," ","(","a","l","l"," ","i","n","d","i","a",")">>,
          <<"c","a","u","s","e","s">>, <<"m","a","l","e">>,
          <<"1","5","-","2","9">>, 2019, 30),
      Row(<<"T","O","T","A","L"," ","(","S","T","A","T","E","S",")">>,
          <<"c","a","u","s","e","s">>, <<"m","a","l","e">>,
          <<"1","5","-","2","9">>, 2019, 30),
      Row(<<"T","o","t","a","l"," ","(","U","T","s",")">>,
          <<"c","a","u","s","e","s">>, <<"m","a","l","e">>,
          <<"1","5","-","2","9">>, 2019, 30) }

SessionRowPool ==
    { Row(<<"g","o","a">>, <<"c","a","u","s","e","s">>, <<"m","a","l","e">>,
          <<"1","5","-","2","9">>, 2019, 10),
      Row(<<"G","o","a">>, <<"c","a","u","s","e","s">>, <<"m","a","l","e">>,
          <<"1","5","-","2","9">>, 2020, 20) }

\* the themes and colour scales the user picks among in the session
ThemeChoices == {Themes[1], Themes[5]}
ColorScaleChoices == {ColorScales[1], ColorScales[5]}

SeqsUpTo(S, n) == UNION {[1..k -> S] : k \in 0..n}

Files == SeqsUpTo(RowPool, MaxRows)
SessionFiles == SeqsUpTo(SessionRowPool, MaxFileRows)

\* ------------------------------------------------------------------------
\* Interactions: each one changes an input and re-executes the script
\* ------------------------------------------------------------------------
Upload(csv) ==
    Rerun(<<csv>>, session_state)

RemoveFile ==
    /\ uploaded_file # <<>>
    /\ Rerun(<<>>, session_state)

ChooseTheme(t) ==
    /\ "theme" \in widgets
    /\ t # theme
    /\ Rerun(uploaded_file, [session_state EXCEPT !.theme = t])

SelectStates(S) ==
    /\ "states" \in widgets
    /\ S \subseteq Range(options.states)
    /\ S # selected_states
    /\ Rerun(uploaded_file, [session_state EXCEPT !.states = S])

SelectYearRange(lo, hi) ==
    /\ "years" \in widgets
    /\ options.years[1] <= lo /\ lo <= hi /\ hi <= options.years[2]
    /\ <<lo, hi>> # selected_years
    /\ Rerun(uploaded_file, [session_state EXCEPT !.years = <<lo, hi>>])

SelectType(S) ==
    /\ "type" \in widgets
    /\ S \subseteq Range(options.type)
    /\ S # selected_type
    /\ Rerun(uploaded_file, [session_state EXCEPT !.type = S])

SelectGender(S) ==
    /\ "gender" \in widgets
    /\ S \subseteq Range(options.gender)
    /\ S # selected_gender
    /\ Rerun(uploaded_file, [session_state EXCEPT !.gender = S])

SelectAgeGroup(S) ==
    /\ "age_group" \in widgets
    /\ S \subseteq Range(options.age_group)
    /\ S # selected_age_group
    /\ Rerun(uploaded_file, [session_state EXCEPT !.age_group = S])

ChooseCategory(c) ==
    /\ "category" \in widgets
    /\ c # category
    /\ Rerun(uploaded_file, [session_state EXCEPT !.category = c])

ChooseAnalysisType(a) ==
    /\ "analysis_type" \in widgets
    /\ a # analysis_type
    /\ Rerun(uploaded_file, [session_state EXCEPT !.analysis_type = a])

ChooseColorScale(c) ==
    /\ "color_scale" \in widgets
    /\ c # color_scale
    /\ Rerun(uploaded_file, [session_state EXCEPT !.color_scale = c])

ChangeFilter ==
    \/ \E S \in SUBSET Range(options.states) : SelectStates(S)
    \/ \E lo, hi \in options.years[1]..options.years[2] : SelectYearRange(lo, hi)
    \/ \E S \in SUBSET Range(options.type) : SelectType(S)
    \/ \E S \in SUBSET Range(options.gender) : SelectGender(S)
    \/ \E S \in SUBSET Range(options.age_group) : SelectAgeGroup(S)

\* the session: starts with no file in the uploader
Init == FirstRun(script(<<>>, NoWidgets, NoOptions))

Next ==
    \/ \E csv \in SessionFiles : Upload(csv)
    \/ RemoveFile
    \/ \E t \in ThemeChoices : ChooseTheme(t)
    \/ ChangeFilter
    \/ \E c \in Range(Categories) : ChooseCategory(c)
    \/ \E a \in Range(AnalysisTypes) : ChooseAnalysisType(a)
    \/ \E c \in ColorScaleChoices : ChooseColorScale(c)

Spec == Init /\ [][Next]_vars

\* the pipeline on its own: the first run after an upload, then any
\* sequence of filter changes (the other widgets keep their defaults)
InitPipeline ==
    \E csv \in Files : FirstRun(script(<<csv>>, NoWidgets, NoOptions))

NextPipeline == ChangeFilter

SpecPipeline == InitPipeline /\ [][NextPipeline]_vars

\* ------------------------------------------------------------------------
\* Vocabulary of the properties
\* ------------------------------------------------------------------------
Uploaded == uploaded_file # <<>>
Csv == uploaded_file[1]
Filtered == halt \in {"none", "idxmax"}     \* the run reached line 114

casefold(s) == [i \in DOMAIN s |-> lower(s[i])]
ReservedFolded == {casefold(l) : l \in states_to_remove}

\* the rows of the CSV whose State is not a reserved label in any casing
KeptCsv == SelectSeq(Csv, LAMBDA q : casefold(q.State) \notin ReservedFolded)

\* out is text with the first letter of every run of letters in upper case
\* and the other letters in lower case, and no character added or removed
IsTitleOf(out, text) ==
    /\ Len(out) = Len(text)
    /\ \A k \in DOMAIN text :
         out[k] = IF k > 1 /\ iscased(text[k - 1]) THEN lower(text[k])
                  ELSE upper(text[k])

RECURSIVE lstrip(_)
lstrip(s) == IF s # <<>> /\ isspace(Head(s)) THEN lstrip(Tail(s)) ELSE s
RECURSIVE rstrip(_)
rstrip(s) ==
    IF s # <<>> /\ isspace(s[Len(s)]) THEN rstrip(SubSeq(s, 1, Len(s) - 1))
    ELSE s
strip(s) == rstrip(lstrip(s))

RECURSIVE SumAt(_, _)
SumAt(frame, I) ==
    IF I = {} THEN 0
    ELSE LET i == CHOOSE j \in I : TRUE
         IN frame[i].Total + SumAt(frame, I \ {i})

Selected(r) ==
    /\ r.State \in selected_states
    /\ selected_years[1] <= r.Year /\ r.Year <= selected_years[2]
    /\ r.Type \in selected_type
    /\ r.Gender \in selected_gender
    /\ r.Age_group \in selected_age_group

RECURSIVE IsSubSeq(_, _)
IsSubSeq(a, b) ==
    IF a = <<>> THEN TRUE
    ELSE IF b = <<>> THEN FALSE
    ELSE IF Head(a) = Head(b) THEN IsSubSeq(Tail(a), Tail(b))
    ELSE IsSubSeq(a, Tail(b))

StatesOf(frame) == {frame[i].State : i \in DOMAIN frame}
StateTotal(frame, s) == SumAt(frame, {i \in DOMAIN frame : frame[i].State = s})
YearsOf(frame) == {frame[i].Year : i \in DOMAIN frame}
YearTotal(frame, y) == SumAt(frame, {i \in DOMAIN frame : frame[i].Year = y})

RECURSIVE SumOfYearTotals(_, _)
SumOfYearTotals(frame, Y) ==
    IF Y = {} THEN 0
    ELSE LET y == CHOOSE z \in Y : TRUE
         IN YearTotal(frame, y) + SumOfYearTotals(frame, Y \ {y})

\* sum by Year first, then the mean of those sums
MeanOfYearSums(frame) ==
    Float(SumOfYearTotals(frame, YearsOf(frame)), Cardinality(YearsOf(frame)))

\* ------------------------------------------------------------------------
\* C1  A row of the normalized table is in the filtered table iff it meets
\* all five conditions (State, inclusive year range, Type, Gender,
\* Age_group); an empty selection for any field gives an empty table.
\* ------------------------------------------------------------------------
C1_FilterIffAllFive ==
    Filtered =>
      /\ \A i \in DOMAIN df :
           (\E j \in DOMAIN filtered_df : filtered_df[j] = df[i])
             <=> Selected(df[i])
      /\ \A j \in DOMAIN filtered_df : \E i \in DOMAIN df : df[i] = filtered_df[j]
      /\ Len(filtered_df) = Cardinality({i \in DOMAIN df : Selected(df[i])})
      /\ ( \/ selected_states = {} \/ selected_type = {}
           \/ selected_gender = {} \/ selected_age_group = {} )
           => filtered_df = <<>>

C1_Witness ==
    /\ halt = "none"
    /\ Len(filtered_df) < Len(df)
    /\ selected_years[2] < options.years[2]
    /\ \E i \in DOMAIN df : df[i].Year = selected_years[2]

\* ------------------------------------------------------------------------
\* C2  With an empty filtered table the summary metrics give a no-data
\* result, the total is 0 and no exception ends the run.
\* ------------------------------------------------------------------------
C2_EmptyTableNoFault ==
    (Filtered /\ filtered_df = <<>>) =>
      /\ halt = "none"
      /\ DOMAIN metrics = Range(MetricLabels)
      /\ metrics["Total Cases"] = 0
      /\ metrics["Avg Annual Cases"] = NaN
      /\ metrics["Gender Ratio"] = NaN

\* ------------------------------------------------------------------------
\* C3  The normalized table is the CSV without the rows whose State is a
\* reserved total label in any letter case, the other rows in their order.
\* ------------------------------------------------------------------------
C3_ReservedRowsRemoved ==
    Uploaded =>
      /\ \A i \in DOMAIN df : df[i].State \notin states_to_remove
      /\ Len(df) = Len(KeptCsv)
      /\ \A i \in DOMAIN df :
           /\ i \in DOMAIN KeptCsv
           /\ casefold(df[i].State) = casefold(KeptCsv[i].State)
           /\ casefold(df[i].Type) = casefold(KeptCsv[i].Type)
           /\ casefold(df[i].Gender) = casefold(KeptCsv[i].Gender)
           /\ df[i].Age_group = KeptCsv[i].Age_group
           /\ df[i].Year = KeptCsv[i].Year
           /\ df[i].Total = KeptCsv[i].Total

C3_Witness ==
    /\ Uploaded
    /\ df # <<>>
    /\ \E i \in DOMAIN Csv :
         /\ Csv[i].State \notin states_to_remove
         /\ casefold(Csv[i].State) \in ReservedFolded

\* ------------------------------------------------------------------------
\* C4  "Avg Annual Cases" of a non-empty filtered table is the mean over the
\* Years present of the per-Year sum of Total.
\* ------------------------------------------------------------------------
C4_AvgIsMeanOfYearSums ==
    (Filtered /\ filtered_df # <<>>) =>
      metrics["Avg Annual Cases"] = format_fixed(MeanOfYearSums(filtered_df), 1)

\* ------------------------------------------------------------------------
\* C5  In a run that reaches the metrics, every element whose own
\* computation does not raise is rendered.
\* ------------------------------------------------------------------------
C5_ViewsIndependent ==
    Filtered =>
      /\ \A l \in Range(MetricLabels) :
           ~raises(l, filtered_df) => l \in DOMAIN metrics
      /\ \A v \in Range(ViewOrder) :
           ~raises(v, filtered_df) => v \in views

\* ------------------------------------------------------------------------
\* C6  "Most Affected State" is a State of maximal summed Total, and among
\* several such States the first in ascending order of name.
\* ------------------------------------------------------------------------
C6_MostAffectedState ==
    (Filtered /\ filtered_df # <<>>) =>
      /\ "Most Affected State" \in DOMAIN metrics
      /\ LET best == metrics["Most Affected State"]
         IN /\ best \in StatesOf(filtered_df)
            /\ \A s \in StatesOf(filtered_df) :
                 /\ StateTotal(filtered_df, s) <= StateTotal(filtered_df, best)
                 /\ (s # best /\ StateTotal(filtered_df, s)
                                   = StateTotal(filtered_df, best))
                      => str_lt(best, s)

C6_Witness ==
    /\ halt = "none"
    /\ \E s \in StatesOf(filtered_df) :
         /\ s # metrics["Most Affected State"]
         /\ StateTotal(filtered_df, s)
              = StateTotal(filtered_df, metrics["Most Affected State"])
         /\ filtered_df[1].State = s

\* ------------------------------------------------------------------------
\* C7  (as stated) Normalization trims and title-cases State, Type and
\* Gender of every row.
\* ------------------------------------------------------------------------
C7_TrimmedAndTitled ==
    Uploaded =>
      /\ Len(df) = Len(KeptCsv)
      /\ \A i \in DOMAIN df :
           /\ i \in DOMAIN KeptCsv
           /\ IsTitleOf(df[i].State, strip(KeptCsv[i].State))
           /\ IsTitleOf(df[i].Type, strip(KeptCsv[i].Type))
           /\ IsTitleOf(df[i].Gender, strip(KeptCsv[i].Gender))

\* C7  (amended) Normalization title-cases State, Type and Gender of every
\* row and removes no character, so that values differing only in letter
\* case become the same value; surrounding whitespace is kept.
C7_TitledNotTrimmed ==
    Uploaded =>
      /\ Len(df) = Len(KeptCsv)
      /\ \A i \in DOMAIN df :
           /\ i \in DOMAIN KeptCsv
           /\ IsTitleOf(df[i].State, KeptCsv[i].State)
           /\ IsTitleOf(df[i].Type, KeptCsv[i].Type)
           /\ IsTitleOf(df[i].Gender, KeptCsv[i].Gender)
      /\ \A i, j \in DOMAIN df :
           /\ i \in DOMAIN KeptCsv /\ j \in DOMAIN KeptCsv
           /\ \A c \in {"State", "Type", "Gender"} :
                casefold(KeptCsv[i][c]) = casefold(KeptCsv[j][c])
                  => df[i][c] = df[j][c]

C7_Witness ==
    /\ Uploaded
    /\ \E i, j \in DOMAIN df :
         /\ i \in DOMAIN KeptCsv /\ j \in DOMAIN KeptCsv
         /\ KeptCsv[i].State # KeptCsv[j].State
         /\ df[i].State = df[j].State
         /\ isspace(Head(df[j].Gender))

\* ------------------------------------------------------------------------
\* C8  The Totals of the by-Year aggregate add up to the sum of Total over
\* the filtered table, which is the "Total Cases" metric.
\* ------------------------------------------------------------------------
C8_YearlySumsConserveTotal ==
    Filtered =>
      /\ SumAt(groupby_sum(filtered_df, "Year"),
               DOMAIN groupby_sum(filtered_df, "Year"))
           = SumAt(filtered_df, DOMAIN filtered_df)
      /\ metrics["Total Cases"] = SumAt(filtered_df, DOMAIN filtered_df)
      /\ "Annual Trend" \in views
           => SumAt(yearly_data, DOMAIN yearly_data) = metrics["Total Cases"]

C8_Witness ==
    /\ "Annual Trend" \in views
    /\ Len(yearly_data) < Len(filtered_df)

\* ------------------------------------------------------------------------
\* C9  The map frame is the by-State aggregate with every State that is a
\* key of the mapping replaced by its value, every other State unchanged,
\* and every Total unchanged.
\* ------------------------------------------------------------------------
C9_ReconciliationIsLookup ==
    "Heatmap" \in views =>
      LET agg == groupby_sum(filtered_df, "State")
      IN /\ Len(map_data) = Len(agg)
         /\ \A i \in DOMAIN agg :
              /\ map_data[i].Total = agg[i].Total
              /\ agg[i].Total = StateTotal(filtered_df, agg[i].State)
              /\ agg[i].State \in DOMAIN state_name_mapping
                   => map_data[i].State = state_name_mapping[agg[i].State]
              /\ agg[i].State \notin DOMAIN state_name_mapping
                   => map_data[i].State = agg[i].State
              /\ agg[i].State = <<"O","d","i","s","h","a">>
                   => map_data[i].State = <<"O","r","i","s","s","a">>

C9_Witness ==
    /\ "Heatmap" \in views
    /\ \E i, j \in DOMAIN map_data :
         /\ map_data[i].State = <<"O","r","i","s","s","a">>
         /\ map_data[j].State = <<"G","o","a">>

\* ------------------------------------------------------------------------
\* C10  While the uploaded file stays the same no interaction changes the
\* normalized table, and the filtered table is always a sub-sequence of it.
\* ------------------------------------------------------------------------
C10_NormalizedTableImmutable ==
    /\ [][uploaded_file' = uploaded_file => df' = df]_vars
    /\ [](IsSubSeq(filtered_df, df))

C10_Witness ==
    /\ df # <<>>
    /\ filtered_df = <<>>
    /\ theme # Themes[1]
    /\ category # Categories[1]
    /\ analysis_type # AnalysisTypes[1]
    /\ color_scale # ColorScales[1]

====
